---- MODULE Spec2Model ----
(***************************************************************************)
(* A model of the mail.cx mailbox session of AirdropKit                    *)
(* (src/email/mail_cx/provider.py, src/airdrop_email/base.py) and of the   *)
(* harness that drives it (src/tests/email/test_mailcx_simple.py).         *)
(*                                                                         *)
(* Python values are modelled as follows.  An Optional value is a sequence *)
(* of length 0 (None) or 1 (the value).  A str that the code lower-cases   *)
(* or strips is a sequence of characters; other strs are TLA+ strings.  Instants are *)
(* integers counting milliseconds; a datetime is a record of whole seconds *)
(* and microseconds.                                                       *)
(***************************************************************************)
EXTENDS Integers, Sequences, FiniteSets, TLC

VARIABLES
    email,              \* self.email (base.py:37), "" when no address is bound
    auth_token,         \* self.auth_token (provider.py:39), Optional[str]
    registration_time,  \* self.registration_time (provider.py:42), Optional[int]
    auto_create,        \* self.config.get('auto_create', True) (provider.py:125)
    session_closed,     \* whether self.session.close() has run (provider.py:133)
    now,                \* the reading of time.time(), in milliseconds
    ret,                \* the last call made on the session and what it returned
    wire,               \* the last fetch/delete request put on the wire and its reply
    w,                  \* the frame of wait_for_message (provider.py:246-284)
    h                   \* the harness test_wait_for_specific (test_mailcx_simple.py:162-192)

vars == <<email, auth_token, registration_time, auto_create, session_closed,
          now, ret, wire, w, h>>

bound_state == <<email, auth_token, registration_time>>

-----------------------------------------------------------------------------
(* Bounds of the model.                                                    *)

T0 == 5000            \* the clock reading in the initial state
TickMs == 500         \* the smallest amount of time the model lets pass
MaxNow == 8500        \* no action moves the clock beyond this reading
MaxLifeReply == 1     \* the longest reply a session of Spec is served
MaxReply == 2         \* the longest reply the wait loop of SpecWait is served
MaxFetchReply == 3    \* the longest reply get_messages alone is served
MaxTimeout == 2       \* the largest timeout (seconds) wait_for_message is given
MaxInterval == 2      \* the largest interval (seconds) wait_for_message is given

-----------------------------------------------------------------------------
(* Python's Optional, truthiness, str.lower and the `in` of two strs.      *)

None == <<>>
Some(v) == <<v>>
IsNone(o) == o = <<>>
Val(o) == o[1]

\* bool(x) of an Optional[str] held as a sequence of characters: None and
\* the empty str are falsy.
TruthyStr(o) == ~IsNone(o) /\ Val(o) # <<>>

\* bool(x) of an Optional[int]: None and 0 are falsy.
TruthyInt(o) == ~IsNone(o) /\ Val(o) # 0

UPPERCASE == "ABCDEFGHIJKLMNOPQRSTUVWXYZ"
LOWERCASE == "abcdefghijklmnopqrstuvwxyz"

\* string.ascii_uppercase
ascii_uppercase == {SubSeq(UPPERCASE, i, i) : i \in 1..Len(UPPERCASE)}

\* the lower-case letter of every upper-case letter
LowerOf ==
    [c \in ascii_uppercase |->
        LET i == CHOOSE i \in 1..Len(UPPERCASE) : SubSeq(UPPERCASE, i, i) = c
        IN SubSeq(LOWERCASE, i, i)]

\* str.lower() of one ASCII character
LowerChar(c) == IF c \in ascii_uppercase THEN LowerOf[c] ELSE c

lower(s) == [i \in DOMAIN s |-> LowerChar(s[i])]

\* needle in hay, for two strs
contains(needle, hay) ==
    \E k \in 0..(Len(hay) - Len(needle)) :
        SubSeq(hay, k + 1, k + Len(needle)) = needle

Min(a, b) == IF a <= b THEN a ELSE b

-----------------------------------------------------------------------------
(* datetime: fromtimestamp and timestamp.                                  *)

MillisPerSec == 1000
MicrosPerMilli == 1000

\* The largest number of milliseconds datetime.fromtimestamp(ms / 1000)
\* accepts; beyond it fromtimestamp raises (year out of range).
MaxDatetimeMillis == 100000

\* datetime.fromtimestamp(ms / 1000), for ms it accepts
fromtimestamp(ms) ==
    [sec |-> ms \div MillisPerSec,
     micro |-> (ms % MillisPerSec) * MicrosPerMilli]

\* int(dt.timestamp() * 1000)
timestamp_millis(dt) == dt.sec * MillisPerSec + (dt.micro \div MicrosPerMilli)

-----------------------------------------------------------------------------
(* The wire format of the remote mailbox API (provider.py:181-214).        *)
(* A reply is [status, data]; status "ok" is a 200 answer whose body is a  *)
(* JSON array, "raise" a transport error raised by session.get, "non200" a *)
(* status other than 200 and "unparsable" a body response.json() rejects.  *)
(* A record's 'posix-millis' field is [k, v]: k = "absent" (no such key),  *)
(* "null" (JSON null), "str" (a non-empty string that is no number) or     *)
(* "int" (the integer v).  Its 'from' field is [k, v]: a dict holding the  *)
(* address v, or the plain string v.                                       *)

Absent == [k |-> "absent", v |-> 0]
Null == [k |-> "null", v |-> 0]
Str == [k |-> "str", v |-> 0]
Num(n) == [k |-> "int", v |-> n]

FromDict(a) == [k |-> "dict", v |-> a]
FromStr(a) == [k |-> "str", v |-> a]

Record(i, ms, subj, frm) == [id |-> i, ms |-> ms, subject |-> subj, from |-> frm]

FailedReplies ==
    {[status |-> st, data |-> <<>>] : st \in {"raise", "non200", "unparsable"}}

RECURSIVE SeqsUpTo(_, _)
\* every sequence over S of length at most n
SeqsUpTo(S, n) ==
    IF n = 0 THEN {<<>>}
    ELSE LET shorter == SeqsUpTo(S, n - 1)
         IN shorter \cup {Append(q, x) : q \in {q \in shorter : Len(q) = n - 1}, x \in S}

OkReplies(pool, n) == {[status |-> "ok", data |-> d] : d \in SeqsUpTo(pool, n)}

-----------------------------------------------------------------------------
(* get_messages (provider.py:135-224).                                     *)

\* provider.py:184-189: the lower bound the loop filters with
since_millis_of(since, reg) ==
    IF ~IsNone(since) THEN Some(timestamp_millis(Val(since)))
    ELSE IF TruthyInt(reg) THEN reg
    ELSE None

\* provider.py:193: msg_data.get('posix-millis', 0)
msg_time_of(rec) == IF rec.ms.k = "absent" THEN Num(0) ELSE rec.ms

\* provider.py:194: "raise" when the comparison raises TypeError, "skip" when
\* the record is left out, "keep" otherwise
time_filter(msg_time, since_millis) ==
    IF ~TruthyInt(since_millis) THEN "keep"
    ELSE IF msg_time.k # "int" THEN "raise"
    ELSE IF msg_time.v <= Val(since_millis) THEN "skip"
    ELSE "keep"

\* provider.py:198-203
received_at_of(msg_time) ==
    CASE msg_time.k = "null" -> None
      [] msg_time.k = "str" -> None
      [] msg_time.k = "int" ->
            IF msg_time.v = 0 THEN None
            ELSE IF msg_time.v > MaxDatetimeMillis THEN None
            ELSE Some(fromtimestamp(msg_time.v))

\* provider.py:205-214
EmailMessage(rec, recipient) ==
    [id |-> rec.id,
     subject |-> rec.subject,
     sender |-> rec.from.v,
     recipient |-> recipient,
     received_at |-> received_at_of(msg_time_of(rec))]

RECURSIVE scan_records(_, _, _, _)
\* provider.py:191-215: the loop over data[:limit], from record i on;
\* [raised, messages]
scan_records(data, i, since_millis, recipient) ==
    IF i > Len(data) THEN [raised |-> FALSE, messages |-> <<>>]
    ELSE LET verdict == time_filter(msg_time_of(data[i]), since_millis)
             rest == scan_records(data, i + 1, since_millis, recipient)
         IN CASE verdict = "raise" -> [raised |-> TRUE, messages |-> <<>>]
              [] verdict = "skip" -> rest
              [] verdict = "keep" ->
                    IF rest.raised THEN rest
                    ELSE [raised |-> FALSE,
                          messages |-> <<EmailMessage(data[i], recipient)>> \o rest.messages]

\* the loop over the whole reply
slice_unbounded(data, limit) == data

\* provider.py:191: data[:limit], for limit >= 0
slice_to(data, limit) == SubSeq(data, 1, Min(limit, Len(data)))

\* a narrower except clause, which lets a transport error through
absorbed_value_errors_only(failure) == failure # "raise"

\* provider.py:220: `except Exception` catches every failure raised inside
\* the try of provider.py:162: a transport error ("raise"), a body that is
\* no JSON ("unparsable"), a TypeError in the loop over the records ("record")
absorbed(failure) == failure \in {"raise", "unparsable", "record"}

\* the fetch guard without its token test
fetch_guard_address_only(tok, em) == em # ""

\* provider.py:154-160: whether get_messages goes on to the remote call
fetch_guard(tok, em) == TruthyStr(tok) /\ em # ""

\* provider.py:154-224: what get_messages returns (val), whether it put a
\* request on the wire, whether the fetch failed, and whether an exception
\* leaves the call (raised); reply is what the remote answers to a request.
get_messages(tok, em, reg, since, limit, reply) ==
    IF ~fetch_guard(tok, em)
    THEN [val |-> <<>>, requested |-> FALSE, failed |-> TRUE, raised |-> FALSE]
    ELSE IF reply.status = "non200"
    THEN [val |-> <<>>, requested |-> TRUE, failed |-> TRUE, raised |-> FALSE]
    ELSE IF reply.status # "ok"
    THEN [val |-> <<>>, requested |-> TRUE, failed |-> TRUE,
          raised |-> ~absorbed(reply.status)]
    ELSE LET r == scan_records(slice_to(reply.data, limit), 1,
                               since_millis_of(since, reg), em)
         IN IF r.raised
            THEN [val |-> <<>>, requested |-> TRUE, failed |-> TRUE,
                  raised |-> ~absorbed("record")]
            ELSE [val |-> r.messages, requested |-> TRUE, failed |-> FALSE, raised |-> FALSE]

\* provider.py:166-175, 320-328: a request carries the token and the address
NoWire == [kind |-> "none", token |-> None, email |-> "", status |-> "none"]
Wire(kind, status) == [kind |-> kind, token |-> auth_token, email |-> email, status |-> status]

NoRet == [op |-> "none"]
NoWait == [pc |-> "idle"]
NoHarness == [pc |-> "off"]

-----------------------------------------------------------------------------
(* The handshake and the session's own operations (provider.py:56-133).    *)

\* str.strip(chars): drop the leading and trailing characters that are in chars
RECURSIVE lstrip(_, _)
lstrip(s, chars) ==
    IF s # <<>> /\ s[1] \in chars THEN lstrip(Tail(s), chars) ELSE s

RECURSIVE rstrip(_, _)
rstrip(s, chars) ==
    IF s # <<>> /\ s[Len(s)] \in chars THEN rstrip(SubSeq(s, 1, Len(s) - 1), chars) ELSE s

strip(s, chars) == rstrip(lstrip(s, chars), chars)

\* provider.py:77: unquote(raw_token).strip().strip('"').strip("'").strip()
\* over cookie values that hold no percent escape
decode_token(raw) == strip(strip(strip(strip(raw, {" "}), {"dq"}), {"sq"}), {" "})

\* The answers to the handshake GET of provider.py:70: the request raises,
\* the response carries no auth_token cookie, or it carries one.
Handshakes ==
    {[k |-> "raise", raw |-> <<>>], [k |-> "nocookie", raw |-> <<>>]}
    \cup {[k |-> "cookie", raw |-> r] :
            r \in {<<"dq", "dq">>, <<"dq", "t", "dq">>, <<" ", "u">>}}

\* provider.py:56-85
get_auth_token(hs) ==
    IF hs.k = "cookie" THEN Some(decode_token(hs.raw)) ELSE None

\* provider.py:26
MAIL_HOSTS == {"qabq.com", "nqmo.com", "end.tw", "uuf.me", "6n9.net"}

\* string.ascii_lowercase
ascii_lowercase ==
    {"a", "b", "c", "d", "e", "f", "g", "h", "i", "j", "k", "l", "m",
     "n", "o", "p", "q", "r", "s", "t", "u", "v", "w", "x", "y", "z"}

\* a draw that can exceed its upper end by one
randint_one_more(a, b) == a..(b + 1)

\* random.randint(a, b): an integer of a..b, both ends included
randint(a, b) == a..b

RECURSIVE choices(_, _)
\* ''.join(random.choices(population, k=k)): every str of k letters of population
choices(population, k) ==
    IF k = 0 THEN {""}
    ELSE {u \o c : u \in choices(population, k - 1), c \in population}

\* provider.py:97: f"{username}@{domain}"
format_email(username, domain) == username \o "@" \o domain

\* provider.py:94-97: every address generate_random_email returns when
\* random.choices draws from letters
random_emails(letters) ==
    {format_email(u, d) :
        u \in UNION {choices(letters, k) : k \in randint(6, 10)},
        d \in MAIL_HOSTS}

\* provider.py:87-99: the two addresses the model lets a session's calls draw
generate_random_email ==
    {format_email("abcdef", "qabq.com"), format_email("ghijklmnop", "6n9.net")}

\* provider.py:109: int(time.time() * 1000)
time_millis == now

\* the test of provider.py:125 without `not self.email`
connect_creates_on_flag_only == auto_create

\* provider.py:125: whether connect goes on to create_email
connect_creates == email = "" \/ auto_create

\* provider.py:120-122: the token connect leaves in self.auth_token
connect_token(hs) == get_auth_token(hs)

\* provider.py:101-110
create_email(addr) ==
    /\ email' = addr
    /\ registration_time' = Some(time_millis)

\* provider.py:112-128
connect(hs, addr) ==
    /\ auth_token' = connect_token(hs)
    /\ IF ~TruthyStr(auth_token')
       THEN /\ UNCHANGED <<email, registration_time>>
            /\ ret' = [op |-> "connect", val |-> FALSE, created |-> FALSE]
       ELSE IF connect_creates
       THEN /\ create_email(addr)
            /\ ret' = [op |-> "connect", val |-> TRUE, created |-> TRUE]
       ELSE /\ UNCHANGED <<email, registration_time>>
            /\ ret' = [op |-> "connect", val |-> TRUE, created |-> FALSE]

\* a close that reopens a closed transport
disconnect_toggle == session_closed' = ~session_closed

\* provider.py:130-133: self.session is a requests.Session, which is truthy
disconnect == session_closed' = TRUE

\* provider.py:315: whether delete_message goes on to the remote call
delete_guard(tok, em) == TruthyStr(tok) /\ em # ""

\* a handler that catches nothing
delete_absorbed_nothing(failure) == FALSE

\* provider.py:336: `except Exception` catches what session.delete raises
delete_absorbed(failure) == failure = "raise"

\* provider.py:305-338: status is "raise", "200" or "non200"; what
\* delete_message returns (val), whether it put a request on the wire, and
\* whether an exception leaves the call (raised)
delete_message(tok, em, status) ==
    IF ~delete_guard(tok, em)
    THEN [val |-> FALSE, requested |-> FALSE, raised |-> FALSE]
    ELSE IF status = "raise"
    THEN [val |-> FALSE, requested |-> TRUE, raised |-> ~delete_absorbed(status)]
    ELSE [val |-> status = "200", requested |-> TRUE, raised |-> FALSE]

-----------------------------------------------------------------------------
(* wait_for_message (provider.py:226-284).                                 *)

\* provider.py:255: get_messages(limit=20)
WAIT_LIMIT == 20

\* the loop without the test of provider.py:265-268
too_old_unchecked(msg, wait_start_millis) == FALSE

\* provider.py:265-268: whether the message is skipped as older than the wait
too_old(msg, wait_start_millis) ==
    /\ ~IsNone(msg.received_at)
    /\ timestamp_millis(Val(msg.received_at)) < wait_start_millis

\* the filters without .lower()
filtered_out_case_sensitive(msg, filter_subject, filter_sender) ==
    \/ /\ TruthyStr(filter_subject)
       /\ ~contains(Val(filter_subject), msg.subject)
    \/ /\ TruthyStr(filter_sender)
       /\ ~contains(Val(filter_sender), msg.sender)

\* provider.py:271-275: whether a filter rejects the message
filtered_out(msg, filter_subject, filter_sender) ==
    \/ /\ TruthyStr(filter_subject)
       /\ ~contains(lower(Val(filter_subject)), lower(msg.subject))
    \/ /\ TruthyStr(filter_sender)
       /\ ~contains(lower(Val(filter_sender)), lower(msg.sender))

RECURSIVE scan_messages(_, _, _, _, _, _)
\* provider.py:257-278: the loop over one poll's messages, from message i on
\* with the ids in seen already seen; [found, seen_ids]
scan_messages(messages, i, seen, wait_start_millis, filter_subject, filter_sender) ==
    IF i > Len(messages) THEN [found |-> None, seen_ids |-> seen]
    ELSE LET msg == messages[i]
         IN IF msg.id \in seen
            THEN scan_messages(messages, i + 1, seen, wait_start_millis,
                               filter_subject, filter_sender)
            ELSE IF \/ too_old(msg, wait_start_millis)
                    \/ filtered_out(msg, filter_subject, filter_sender)
            THEN scan_messages(messages, i + 1, seen \cup {msg.id}, wait_start_millis,
                               filter_subject, filter_sender)
            ELSE [found |-> Some(msg), seen_ids |-> seen \cup {msg.id}]

\* the elapsed milliseconds compared with the timeout in seconds
loop_condition_unit_mismatch(t, start_time, timeout) == t - start_time < timeout

\* provider.py:252: time.time() - start_time < timeout
loop_condition(t, start_time, timeout) == t - start_time < timeout * MillisPerSec

\* The declarative reading of "qualifies" (spec.md 4.2): message i of a poll
\* qualifies when its id is on no earlier message of the call, its
\* received_at, if present, is not before the invocation instant, and the
\* filters, if given, occur in subject and sender regardless of case.
Qualifies(messages, i, seen_before, invoked_millis, filter_subject, filter_sender) ==
    LET msg == messages[i]
    IN /\ msg.id \notin seen_before
       /\ \A j \in 1..(i - 1) : messages[j].id # msg.id
       /\ IsNone(msg.received_at)
            \/ timestamp_millis(Val(msg.received_at)) >= invoked_millis
       /\ IsNone(filter_subject)
            \/ contains(lower(Val(filter_subject)), lower(msg.subject))
       /\ IsNone(filter_sender)
            \/ contains(lower(Val(filter_sender)), lower(msg.sender))

FirstIndex(S) == CHOOSE i \in S : \A j \in S : i <= j

QualifyingIndexes(messages, seen_before, invoked_millis, filter_subject, filter_sender) ==
    {i \in 1..Len(messages) :
        Qualifies(messages, i, seen_before, invoked_millis, filter_subject, filter_sender)}

\* provider.py:246-250: the frame after the two clock readings; gap is the
\* time that passes between them.  Beside the locals of the code the frame
\* keeps a record of the call: the number of polls, whether a fetch failed,
\* and of the last poll: the ids seen before it (seen_before), the ids it
\* delivered (poll_ids), whether its fetch failed, and its first qualifying
\* message by the declarative reading, with its index (0 when there is none).
WaitInvoke(timeouts, intervals, subjects, senders) ==
    /\ w.pc # "loop"
    /\ \E timeout \in timeouts, interval \in intervals,
          fs \in subjects, fd \in senders, gap \in {0, TickMs} :
        /\ now + gap + (timeout + interval) * MillisPerSec + TickMs <= MaxNow
        /\ now' = now + gap
        /\ w' = [pc |-> "loop",
                 start_time |-> now,
                 wait_start_millis |-> now + gap,
                 timeout |-> timeout,
                 interval |-> interval,
                 filter_subject |-> fs,
                 filter_sender |-> fd,
                 seen_ids |-> {},
                 result |-> None,
                 interrupted |-> FALSE,
                 npolls |-> 0,
                 fetch_at |-> None,
                 seen_before |-> {},
                 poll_ids |-> {},
                 poll_failed |-> FALSE,
                 any_failed |-> FALSE,
                 first_index |-> 0,
                 first_qualifying |-> None,
                 any_qualified |-> FALSE]
    /\ ret' = [op |-> "wait_for_message"]
    /\ wire' = NoWire
    /\ UNCHANGED <<email, auth_token, registration_time, auto_create, session_closed, h>>

\* a loop that fetches without sleeping first
sleep_skipped(t, interval) == t

\* provider.py:253: time.sleep(interval) entered at instant t returns at
\* this instant at the earliest
sleep_until(t, interval) == t + interval * MillisPerSec

\* provider.py:252-281: one turn of the loop: the sleep, the fetch, the scan.
\* fetch_at is the instant the sleep ends and the fetch begins, latency the
\* time the fetch takes; the clock advances in every turn.
\* An exception that left get_messages would leave wait_for_message too.
WaitPoll(replies) ==
    /\ w.pc = "loop"
    /\ loop_condition(now, w.start_time, w.timeout)
    /\ \E latency \in {0, TickMs}, reply \in replies :
        LET got == get_messages(auth_token, email, registration_time, None, WAIT_LIMIT, reply)
            scan == scan_messages(got.val, 1, w.seen_ids, w.wait_start_millis,
                                  w.filter_subject, w.filter_sender)
            qual == QualifyingIndexes(got.val, w.seen_ids, w.wait_start_millis,
                                      w.filter_subject, w.filter_sender)
            fetch_at == sleep_until(now, w.interval)
        IN /\ fetch_at + latency > now
           /\ now' = fetch_at + latency
           /\ wire' = IF got.requested THEN Wire("fetch", reply.status) ELSE NoWire
           /\ w' = [w EXCEPT !.pc = IF got.raised THEN "raised"
                                     ELSE IF IsNone(scan.found) THEN "loop"
                                     ELSE "returned",
                             !.result = scan.found,
                             !.seen_ids = scan.seen_ids,
                             !.npolls = @ + 1,
                             !.fetch_at = Some(fetch_at),
                             !.seen_before = w.seen_ids,
                             !.poll_ids = {got.val[i].id : i \in DOMAIN got.val},
                             !.poll_failed = got.failed,
                             !.any_failed = @ \/ got.failed,
                             !.first_index = IF qual = {} THEN 0 ELSE FirstIndex(qual),
                             !.first_qualifying =
                                 IF qual = {} THEN None ELSE Some(got.val[FirstIndex(qual)]),
                             !.any_qualified = @ \/ qual # {}]
    /\ UNCHANGED <<email, auth_token, registration_time, auto_create, session_closed, ret, h>>

\* provider.py:252, 283-284: the loop condition fails and None is returned
WaitTimeout ==
    /\ w.pc = "loop"
    /\ ~loop_condition(now, w.start_time, w.timeout)
    /\ w' = [w EXCEPT !.pc = "returned", !.result = None]
    /\ UNCHANGED <<email, auth_token, registration_time, auto_create, session_closed,
                   now, ret, wire, h>>

\* An interrupt signal while the loop sleeps or polls: KeyboardInterrupt is
\* raised in time.sleep (provider.py:253) or passes the `except Exception`
\* of get_messages (provider.py:220); nothing in provider.py:246-284 catches it.
Interrupt ==
    /\ w.pc = "loop"
    /\ w' = [w EXCEPT !.pc = "raised", !.interrupted = TRUE]
    /\ UNCHANGED <<email, auth_token, registration_time, auto_create, session_closed,
                   now, ret, wire, h>>

-----------------------------------------------------------------------------
(* The calls a client makes on the session, one action per call.           *)

Connect ==
    /\ w.pc # "loop"
    /\ \E hs \in Handshakes, addr \in generate_random_email : connect(hs, addr)
    /\ wire' = NoWire
    /\ w' = NoWait
    /\ UNCHANGED <<auto_create, session_closed, now, h>>

CreateEmailFrom(addresses) ==
    /\ w.pc # "loop"
    /\ \E addr \in addresses :
        /\ create_email(addr)
        /\ ret' = [op |-> "create_email", val |-> addr]
    /\ wire' = NoWire
    /\ w' = NoWait
    /\ UNCHANGED <<auth_token, auto_create, session_closed, now, h>>

CreateEmail == CreateEmailFrom(generate_random_email)

GetMessages(replies, sinces, limits) ==
    /\ w.pc # "loop"
    /\ \E reply \in replies, since \in sinces, limit \in limits :
        LET got == get_messages(auth_token, email, registration_time, since, limit, reply)
        IN /\ ret' = [op |-> "get_messages", since |-> since, limit |-> limit,
                      raised |-> got.raised,
                      reply |-> IF got.requested THEN reply ELSE [status |-> "none", data |-> <<>>],
                      val |-> got.val]
           /\ wire' = IF got.requested THEN Wire("fetch", reply.status) ELSE NoWire
    /\ w' = NoWait
    /\ UNCHANGED <<email, auth_token, registration_time, auto_create, session_closed, now, h>>

DeleteMessage ==
    /\ w.pc # "loop"
    /\ \E status \in {"raise", "200", "non200"} :
        LET got == delete_message(auth_token, email, status)
        IN /\ ret' = [op |-> "delete_message", val |-> got.val, raised |-> got.raised,
                      status |-> IF got.requested THEN status ELSE "none"]
           /\ wire' = IF got.requested THEN Wire("delete", status) ELSE NoWire
    /\ w' = NoWait
    /\ UNCHANGED <<email, auth_token, registration_time, auto_create, session_closed, now, h>>

Disconnect ==
    /\ w.pc # "loop"
    /\ disconnect
    /\ ret' = [op |-> "disconnect", again |-> session_closed]
    /\ wire' = NoWire
    /\ w' = NoWait
    /\ UNCHANGED <<email, auth_token, registration_time, auto_create, now, h>>

\* Time passes between two calls.
Tick ==
    /\ w.pc # "loop"
    /\ now + TickMs <= MaxNow
    /\ now' = now + TickMs
    /\ UNCHANGED <<email, auth_token, registration_time, auto_create, session_closed,
                   ret, wire, w, h>>

-----------------------------------------------------------------------------
(* Spec: a fresh session (provider.py:28-43) and every sequence of calls.  *)

SubjHit == <<"x", "V", "E">>
SubjMiss == <<"x", "v">>
SendHit == <<"N", "o">>
SendMiss == <<"o", "n">>

LifePool ==
    {Record("m1", Num(T0 + TickMs), SubjHit, FromDict(SendHit)),
     Record("m2", Absent, SubjHit, FromStr(SendHit))}

LifeReplies == OkReplies(LifePool, MaxLifeReply) \cup FailedReplies

Init ==
    /\ email \in {"", "preset@uuf.me"}
    /\ auth_token = None
    /\ registration_time = None
    /\ auto_create \in BOOLEAN
    /\ session_closed = FALSE
    /\ now = T0
    /\ ret = NoRet
    /\ wire = NoWire
    /\ w = NoWait
    /\ h = NoHarness

Next ==
    \/ Connect
    \/ CreateEmail
    \/ GetMessages(LifeReplies, {None}, {10})
    \/ DeleteMessage
    \/ Disconnect
    \/ Tick
    \/ WaitInvoke({1}, {1}, {None}, {None})
    \/ WaitPoll(LifeReplies)
    \/ WaitTimeout
    \/ Interrupt

Spec == Init /\ [][Next]_vars

-----------------------------------------------------------------------------
(* SpecFetch: get_messages alone, on every session state and every reply.  *)

\* One record per shape of the 'posix-millis' field; the id names the shape.
FetchPool ==
    {Record("absent", Absent, SubjHit, FromDict(SendHit)),
     Record("null", Null, SubjHit, FromDict(SendHit)),
     Record("str", Str, SubjHit, FromDict(SendHit)),
     Record("zero", Num(0), SubjHit, FromDict(SendHit)),
     Record("older", Num(T0 - 1), SubjHit, FromDict(SendHit)),
     Record("equal", Num(T0), SubjHit, FromStr(SendHit)),
     Record("newer", Num(T0 + 1), SubjHit, FromDict(SendHit)),
     Record("huge", Num(MaxDatetimeMillis + 1), SubjHit, FromDict(SendHit))}

FetchReplies == OkReplies(FetchPool, MaxFetchReply) \cup FailedReplies

\* since: not given, the epoch, and an instant half a millisecond after T0 - 1
FetchSinces ==
    {None,
     Some([sec |-> 0, micro |-> 0]),
     Some([sec |-> (T0 - 1) \div MillisPerSec,
           micro |-> ((T0 - 1) % MillisPerSec) * MicrosPerMilli + 500])}

FetchLimits == {0, 1, 2, WAIT_LIMIT}

InitFetch ==
    /\ email \in {"", "abcdef@qabq.com"}
    /\ auth_token \in {None, Some(<<>>), Some(<<"t">>)}
    /\ registration_time \in {None, Some(T0)}
    /\ registration_time # None => email # ""
    /\ auto_create = TRUE
    /\ session_closed = FALSE
    /\ now = T0 + TickMs
    /\ ret = NoRet
    /\ wire = NoWire
    /\ w = NoWait
    /\ h = NoHarness

\* one call per behaviour: the call's effect depends on nothing an earlier call leaves
NextFetch == ret = NoRet /\ GetMessages(FetchReplies, FetchSinces, FetchLimits)

SpecFetch == InitFetch /\ [][NextFetch]_vars

-----------------------------------------------------------------------------
(* CodeExtractor (verifier.py).  A text is a TLA+ string of ASCII          *)
(* characters.  A pattern is a record: boundary (the capture group stands  *)
(* between two \b), labels (the alternatives that precede the group, in    *)
(* the order of the pattern; <<"">> when nothing precedes it), seps        *)
(* (whether [\s:]* stands between label and group), and the group itself:  *)
(* class "digit" for \d or "alnum" for [A-Z0-9], repeated min..max times,  *)
(* or min times and more when unbounded.  Matching ignores case            *)
(* (re.IGNORECASE).                                                        *)

Digits == {"0", "1", "2", "3", "4", "5", "6", "7", "8", "9"}

\* \d
IsDigit(c) == c \in Digits

\* the ASCII letters of both cases
AsciiLetters ==
    {SubSeq(LOWERCASE, i, i) : i \in 1..Len(LOWERCASE)} \cup ascii_uppercase

\* [A-Z0-9] under re.IGNORECASE
IsAlnum(c) == c \in Digits \/ c \in AsciiLetters

\* \w
IsWord(c) == IsAlnum(c) \/ c = "_"

\* \s
IsSpace(c) == c \in {" ", "\n", "\t"}

\* [\s:] and the full-width colon, which no ASCII text holds
IsSep(c) == IsSpace(c) \/ c = ":"

CharAt(text, i) == SubSeq(text, i, i)

WordAt(text, i) == i >= 1 /\ i <= Len(text) /\ IsWord(CharAt(text, i))

\* \b between the characters i - 1 and i
boundary(text, i) == WordAt(text, i - 1) # WordAt(text, i)

InClass(class, c) == IF class = "digit" THEN IsDigit(c) ELSE IsAlnum(c)

RECURSIVE run(_, _, _, _)
\* the number of consecutive characters of class from position i on, at most cap
run(text, i, class, cap) ==
    IF cap = 0 \/ i > Len(text) \/ ~InClass(class, CharAt(text, i)) THEN 0
    ELSE 1 + run(text, i + 1, class, cap - 1)

RECURSIVE skip_seps(_, _)
\* [\s:]* from position i on: the position of the first character that is no separator
skip_seps(text, i) ==
    IF i <= Len(text) /\ IsSep(CharAt(text, i)) THEN skip_seps(text, i + 1) ELSE i

RECURSIVE lower_str(_)
\* str.lower() of an ASCII str
lower_str(t) ==
    IF t = "" THEN "" ELSE LowerChar(SubSeq(t, 1, 1)) \o lower_str(SubSeq(t, 2, Len(t)))

Bare(class, min, max) ==
    [boundary |-> TRUE, labels |-> <<"">>, seps |-> FALSE,
     class |-> class, min |-> min, max |-> max, unbounded |-> FALSE]

Labelled(labels, min, max) ==
    [boundary |-> FALSE, labels |-> labels, seps |-> TRUE,
     class |-> "alnum", min |-> min, max |-> max, unbounded |-> FALSE]

\* [?&]name=([A-Z0-9]+)
Param(name) ==
    [boundary |-> FALSE, labels |-> <<"?" \o name \o "=", "&" \o name \o "=">>, seps |-> FALSE,
     class |-> "alnum", min |-> 1, max |-> 1, unbounded |-> TRUE]

\* verifier.py:16-31.  The labels of the sixth pattern are CJK words; no
\* ASCII text holds one, so that the pattern has no label to find here.
PATTERNS ==
    <<Bare("digit", 6, 6),
      Bare("digit", 4, 4),
      Bare("digit", 8, 8),
      Bare("alnum", 6, 8),
      Labelled(<<"code", "verification code", "verify code", "confirmation code",
                 "otp", "pin">>, 4, 8),
      Labelled(<<>>, 4, 8),
      Param("code"),
      Param("token")>>

NoMatch == [ok |-> FALSE, group |-> "", end |-> 0]

\* the match of pattern p that starts at position i with the given label.
\* The group is greedy: the longest repetition the rest of the pattern
\* accepts.  [\s:]* never gives a separator back, for no separator is in
\* the class of the group.
match_with_label(p, text, i, label) ==
    IF \/ p.boundary /\ ~boundary(text, i)
       \/ i + Len(label) - 1 > Len(text)
       \/ label # "" /\ LowerChar(CharAt(text, i)) # SubSeq(label, 1, 1)
       \/ lower_str(SubSeq(text, i, i + Len(label) - 1)) # label
    THEN NoMatch
    ELSE LET g == IF p.seps THEN skip_seps(text, i + Len(label)) ELSE i + Len(label)
             n == run(text, g, p.class, IF p.unbounded THEN Len(text) ELSE p.max)
             ks == {k \in p.min..n : p.boundary => boundary(text, g + k)}
         IN IF ks = {} THEN NoMatch
            ELSE LET k == CHOOSE k \in ks : \A k2 \in ks : k2 <= k
                 IN [ok |-> TRUE, group |-> SubSeq(text, g, g + k - 1), end |-> g + k - 1]

RECURSIVE match_from_label(_, _, _, _)
\* the match of p at position i with the first alternative, from
\* alternative l on, that matches
match_from_label(p, text, i, l) ==
    IF l > Len(p.labels) THEN NoMatch
    ELSE LET m == match_with_label(p, text, i, p.labels[l])
         IN IF m.ok THEN m ELSE match_from_label(p, text, i, l + 1)

\* the match of p at position i: that of the first alternative that matches
match_at(p, text, i) == match_from_label(p, text, i, 1)

RECURSIVE finditer(_, _, _)
\* re.finditer(p, text, re.IGNORECASE) from position i on: group(1) of the
\* matches, leftmost first, none overlapping
finditer(p, text, i) ==
    IF i > Len(text) THEN <<>>
    ELSE LET m == match_at(p, text, i)
         IN IF m.ok THEN <<m.group>> \o finditer(p, text, m.end + 1)
            ELSE finditer(p, text, i + 1)

\* re.search(p, text, re.IGNORECASE): group(1) of the leftmost match, or None
search(p, text) ==
    LET all == finditer(p, text, 1) IN IF all = <<>> THEN None ELSE Some(Head(all))

\* verifier.py:91-94
false_positives == {"2024", "2023", "2022", "2021", "2020", "1234", "0000", "9999"}

\* a validation that only looks at the length
is_valid_code_by_length(code) == Len(code) >= 4 /\ Len(code) <= 8

\* verifier.py:79-103: _is_valid_code
is_valid_code(code) ==
    /\ code \notin false_positives
    /\ ~(Len(code) < 4 \/ Len(code) > 8)

RECURSIVE lstrip_str(_)
lstrip_str(t) ==
    IF t # "" /\ IsSpace(SubSeq(t, 1, 1)) THEN lstrip_str(SubSeq(t, 2, Len(t))) ELSE t

RECURSIVE rstrip_str(_)
rstrip_str(t) ==
    IF t # "" /\ IsSpace(SubSeq(t, Len(t), Len(t))) THEN rstrip_str(SubSeq(t, 1, Len(t) - 1)) ELSE t

\* str.strip()
strip_str(t) == rstrip_str(lstrip_str(t))

RECURSIVE get_text(_)
\* verifier.py:54-58: an HTML body is held as the sequence of its text
\* nodes, each with the tag that encloses it.  decompose() drops the nodes
\* of script and style; get_text(separator=' ', strip=True) strips every
\* remaining string, leaves out the empty ones and joins the rest with ' '.
get_text(nodes) ==
    IF nodes = <<>> THEN ""
    ELSE LET node == Head(nodes)
             own == IF node.tag \in {"script", "style"} THEN "" ELSE strip_str(node.text)
             rest == get_text(Tail(nodes))
         IN IF own = "" THEN rest
            ELSE IF rest = "" THEN own
            ELSE own \o " " \o rest

\* verifier.py:50-59: the text the patterns are applied to
unified_text(message, use_html) ==
    LET text == IF IsNone(message.body_text) THEN "" ELSE Val(message.body_text)
    IN IF use_html /\ ~IsNone(message.body_html) /\ Val(message.body_html) # <<>>
       THEN get_text(Val(message.body_html)) \o "\n" \o text
       ELSE text

RECURSIVE first_match_unvalidated(_, _)
\* the loop over PATTERNS without the validation of the match
first_match_unvalidated(text, n) ==
    IF n > Len(PATTERNS) THEN None
    ELSE LET match == search(PATTERNS[n], text)
         IN IF ~IsNone(match) THEN match
            ELSE first_match_unvalidated(text, n + 1)

RECURSIVE first_valid(_, _)
\* verifier.py:69-77: the loop over PATTERNS from pattern n on
first_valid(text, n) ==
    IF n > Len(PATTERNS) THEN None
    ELSE LET match == search(PATTERNS[n], text)
         IN IF ~IsNone(match) /\ is_valid_code(Val(match)) THEN match
            ELSE first_valid(text, n + 1)

\* an extraction that tries the default patterns when the custom one
\* finds nothing
extract_code_defaults_on_miss(message, pattern, use_html) ==
    LET text == unified_text(message, use_html)
        own == IF IsNone(pattern) THEN None ELSE search(Val(pattern), text)
    IN IF IsNone(own) THEN first_valid(text, 1) ELSE own

\* verifier.py:33-77: pattern is None or a custom pattern
extract_code(message, pattern, use_html) ==
    LET text == unified_text(message, use_html)
    IN IF ~IsNone(pattern) THEN search(Val(pattern), text)
       ELSE first_valid(text, 1)

RECURSIVE candidates(_, _)
\* verifier.py:132-135: group(1) of every match of every pattern from
\* pattern n on, in the order the two loops visit them
candidates(text, n) ==
    IF n > Len(PATTERNS) THEN <<>>
    ELSE finditer(PATTERNS[n], text, 1) \o candidates(text, n + 1)

RECURSIVE collect_without_seen(_, _)
\* the collection without the test of `seen`
collect_without_seen(found, codes) ==
    IF found = <<>> THEN codes
    ELSE collect_without_seen(Tail(found),
            IF is_valid_code(Head(found)) THEN Append(codes, Head(found)) ELSE codes)

RECURSIVE collect(_, _)
\* verifier.py:136-138: seen holds exactly the elements of codes
collect(found, codes) ==
    IF found = <<>> THEN codes
    ELSE LET code == Head(found)
             seen == {codes[i] : i \in DOMAIN codes}
         IN collect(Tail(found),
                IF code \notin seen /\ is_valid_code(code) THEN Append(codes, code) ELSE codes)

\* verifier.py:105-140
extract_all_codes(message, use_html) ==
    collect(candidates(unified_text(message, use_html), 1), <<>>)

\* An anchor element is a node of tag "a" that also holds its href
\* attribute; an <a> without the attribute is a node without the field.
Anchor(href, text) == [tag |-> "a", text |-> text, href |-> href]

has_href(node) == node.tag = "a" /\ "href" \in DOMAIN node

\* verifier.py:165: soup.find_all('a', href=True), in document order.  An
\* attribute that is present matches whatever its value, the empty one too.
find_all_anchors(nodes) == SelectSeq(nodes, has_href)

\* str.startswith
startswith(t, prefix) ==
    Len(prefix) <= Len(t) /\ SubSeq(t, 1, Len(prefix)) = prefix

\* bool(keyword) of verifier.py:172 and 183: None and '' are falsy
TruthyKeyword(keyword) == ~IsNone(keyword) /\ Val(keyword) # ""

\* keyword.lower() in t.lower()
keyword_in(keyword, t) == contains(lower_str(Val(keyword)), lower_str(t))

\* verifier.py:172-178: the test an anchor passes to be returned
anchor_qualifies(link, keyword) ==
    LET href == link.href
        link_text == strip_str(link.text)
    IN IF TruthyKeyword(keyword)
       THEN keyword_in(keyword, href) \/ keyword_in(keyword, link_text)
       ELSE startswith(href, "http://") \/ startswith(href, "https://")

RECURSIVE first_anchor(_, _)
\* verifier.py:167-178: the loop over the anchors
first_anchor(links, keyword) ==
    IF links = <<>> THEN None
    ELSE IF anchor_qualifies(Head(links), keyword) THEN Some(Head(links).href)
    ELSE first_anchor(Tail(links), keyword)

\* [^\s<>"]
IsUrlChar(c) == ~IsSpace(c) /\ c \notin {"<", ">", "\""}

RECURSIVE url_run(_, _)
\* [^\s<>"]* from position i on: the number of characters it takes
url_run(text, i) ==
    IF i > Len(text) \/ ~IsUrlChar(CharAt(text, i)) THEN 0
    ELSE 1 + url_run(text, i + 1)

\* verifier.py:158: the match of url_pattern that starts at position i.
\* The pattern is applied without re.IGNORECASE.
url_at(text, i) ==
    LET prefix == IF startswith(SubSeq(text, i, Len(text)), "https://") THEN "https://"
                  ELSE IF startswith(SubSeq(text, i, Len(text)), "http://") THEN "http://"
                  ELSE IF startswith(SubSeq(text, i, Len(text)), "www.") THEN "www."
                  ELSE ""
        n == url_run(text, i + Len(prefix))
    IN IF prefix = "" \/ n = 0 THEN NoMatch
       ELSE [ok |-> TRUE, group |-> SubSeq(text, i, i + Len(prefix) + n - 1),
             end |-> i + Len(prefix) + n - 1]

RECURSIVE findall(_, _)
\* verifier.py:181: re.findall(url_pattern, text) from position i on
findall(text, i) ==
    IF i > Len(text) THEN <<>>
    ELSE LET m == url_at(text, i)
         IN IF m.ok THEN <<m.group>> \o findall(text, m.end + 1)
            ELSE findall(text, i + 1)

\* verifier.py:183-187: the test a URL of the plain text passes
url_qualifies(url, keyword) ==
    IF TruthyKeyword(keyword) THEN keyword_in(keyword, url) ELSE TRUE

RECURSIVE first_url(_, _)
\* verifier.py:182-187: the loop over the URLs of the plain text
first_url(matches, keyword) ==
    IF matches = <<>> THEN None
    ELSE IF url_qualifies(Head(matches), keyword) THEN Some(Head(matches))
    ELSE first_url(Tail(matches), keyword)

\* the plain text a link is looked for in (verifier.py:160)
link_text_of(message) ==
    IF IsNone(message.body_text) THEN "" ELSE Val(message.body_text)

\* a link extraction that looks at the plain text first
extract_link_plain_text_first(message, keyword) ==
    LET url == first_url(findall(link_text_of(message), 1), keyword)
    IN IF ~IsNone(url) THEN url
       ELSE IF ~IsNone(message.body_html) /\ Val(message.body_html) # <<>>
       THEN first_anchor(find_all_anchors(Val(message.body_html)), keyword)
       ELSE None

\* verifier.py:142-189
extract_link(message, keyword) ==
    LET href == IF ~IsNone(message.body_html) /\ Val(message.body_html) # <<>>
                THEN first_anchor(find_all_anchors(Val(message.body_html)), keyword)
                ELSE None
    IN IF ~IsNone(href) THEN href
       ELSE first_url(findall(link_text_of(message), 1), keyword)

\* verifier.py:218.  The last two keywords are CJK words, written here by
\* their code points; no ASCII href, link text or URL contains either.
KEYWORDS ==
    <<"verify", "confirm", "activate", "validation", "\\u9a8c\\u8bc1", "\\u78ba\\u8a8d">>

\* bool(link) of verifier.py:220: None and '' are falsy
TruthyLink(link) == ~IsNone(link) /\ Val(link) # ""

RECURSIVE verification_link_without_break(_, _, _)
\* the loop over the keywords without its break: the last hit stays
verification_link_without_break(message, n, found) ==
    IF n > Len(KEYWORDS) THEN found
    ELSE LET link == extract_link(message, Some(KEYWORDS[n]))
         IN verification_link_without_break(message, n + 1,
                IF TruthyLink(link) THEN link ELSE found)

RECURSIVE verification_link(_, _, _)
\* verifier.py:218-222: the loop over the keywords from keyword n on;
\* found is info['verification_link'] before the loop
verification_link(message, n, found) ==
    IF n > Len(KEYWORDS) THEN found
    ELSE LET link == extract_link(message, Some(KEYWORDS[n]))
         IN IF TruthyLink(link) THEN link
            ELSE verification_link(message, n + 1, found)

\* verifier.py:212-215: the hrefs of the anchors that start with a scheme
http_hrefs(links) ==
    LET is_http(link) == startswith(link.href, "http://") \/ startswith(link.href, "https://")
        kept == SelectSeq(links, is_http)
    IN [i \in DOMAIN kept |-> kept[i].href]

\* verifier.py:191-224.  subject and sender are copied from the message
\* and are left out here, as they are left out of the messages.
extract_info(message) ==
    [codes |-> extract_all_codes(message, TRUE),
     primary_code |-> extract_code(message, None, TRUE),
     links |-> IF ~IsNone(message.body_html) /\ Val(message.body_html) # <<>>
               THEN http_hrefs(find_all_anchors(Val(message.body_html)))
               ELSE <<>>,
     verification_link |-> verification_link(message, 1, None)]


-----------------------------------------------------------------------------
(* Claims about connect and about the requests a session issues.           *)

\* the session holds a token and an address (spec.md 4.2: state Bound)
Bound == TruthyStr(auth_token) /\ email # ""

\* C6: if token acquisition fails, connect returns False and leaves email,
\* auth_token and registration_time exactly as they were before the call:
\* a session that was Bound before a failed re-connect is still Bound with
\* its previous token afterwards.
C6_FailedConnectKeepsBoundState ==
    [][(Connect /\ ret'.val = FALSE /\ Bound) => UNCHANGED bound_state]_vars

\* C7: whenever connect returns True, auth_token and email are non-empty;
\* create_email is invoked during a successful connect exactly when
\* auto_create is true or no address was bound, and otherwise the address
\* (and its registration time) is kept unchanged.
C7_ConnectTrueEstablishesBoth ==
    [][(Connect /\ ret'.val = TRUE) =>
            /\ ~IsNone(auth_token') /\ Val(auth_token') # <<>>
            /\ email' # ""
            /\ ret'.created <=> (auto_create \/ email = "")
            /\ ret'.created =>
                    /\ email' \in generate_random_email
                    /\ registration_time' = Some(now)
            /\ ~ret'.created => UNCHANGED <<email, registration_time>>
       ]_vars

C7_Witness ==
    /\ ret.op = "connect"
    /\ ret.val = TRUE
    /\ ~ret.created
    /\ email = "preset@uuf.me"
    /\ ~auto_create

\* C8: in every state reachable by any sequence of calls, a fetch or delete
\* request is on the wire only with a non-empty auth_token and a non-empty
\* email.
C8_RequestsCarryTokenAndAddress ==
    wire.kind \in {"fetch", "delete"} =>
        /\ ~IsNone(wire.token) /\ Val(wire.token) # <<>>
        /\ wire.email # ""

C8_Witness ==
    /\ wire.kind = "delete"
    /\ session_closed
    /\ ret.op = "delete_message"
    /\ ret.val = TRUE

-----------------------------------------------------------------------------
(* Claims about get_messages.                                              *)

\* The lower bound spec.md 4.2 names: since if given, else the creation time.
LowerBound(since, reg) ==
    IF ~IsNone(since) THEN Some(timestamp_millis(Val(since))) ELSE reg

TimestampPresent(rec) == rec.ms.k # "absent"

WellFormed(rec) ==
    rec.ms.k = "absent" \/ (rec.ms.k = "int" /\ rec.ms.v <= MaxDatetimeMillis)

\* the records of data a lower bound lb excludes: timestamp present and <= lb
ExcludedByClaim(rec, lb) ==
    ~IsNone(lb) /\ TimestampPresent(rec) /\ rec.ms.k = "int" /\ rec.ms.v <= Val(lb)

RECURSIVE IdsKept(_, _)
IdsKept(data, lb) ==
    IF data = <<>> THEN <<>>
    ELSE (IF ExcludedByClaim(Head(data), lb) THEN <<>> ELSE <<Head(data).id>>)
         \o IdsKept(Tail(data), lb)

IdsOf(messages) == [i \in DOMAIN messages |-> messages[i].id]

\* a call of get_messages that reached the remote and got a 200 JSON array
FetchAnswered == ret.op = "get_messages" /\ ret.reply.status = "ok"

Considered == slice_to(ret.reply.data, ret.limit)

\* C9: get_messages excludes a record exactly when its timestamp is present
\* and <= the effective lower bound; every other record it considers,
\* including one with no timestamp while a lower bound is in effect,
\* survives and is mapped to a returned message.  (Stated for replies
\* whose timestamps are well formed and for a lower bound other than 0.)
C9_ExcludesExactlyOldRecords ==
    (/\ FetchAnswered
     /\ \A i \in DOMAIN Considered : WellFormed(Considered[i])
     /\ LowerBound(ret.since, registration_time) # Some(0))
    => IdsOf(ret.val) = IdsKept(Considered, LowerBound(ret.since, registration_time))

Malformed(rec) == ~WellFormed(rec)

\* C10: a record whose timestamp field is malformed does not abort
\* get_messages: it is returned with received_at absent, and every other
\* record of the reply that is not excluded by time is still returned,
\* whether or not a lower bound is in effect.  (Stated for replies whose
\* other records all carry a timestamp, and a lower bound other than 0.)
C10_MalformedTimestampTolerated ==
    (/\ FetchAnswered
     /\ \E i \in DOMAIN Considered : Malformed(Considered[i])
     /\ \A i \in DOMAIN Considered : TimestampPresent(Considered[i])
     /\ LowerBound(ret.since, registration_time) # Some(0))
    => /\ IdsOf(ret.val) = IdsKept(Considered, LowerBound(ret.since, registration_time))
       /\ \A i \in DOMAIN ret.val :
            ret.val[i].id \in {"null", "str", "huge"} => IsNone(ret.val[i].received_at)

\* every record the call considered carries an integer timestamp
ConsideredStamped == \A i \in DOMAIN Considered : Considered[i].ms.k = "int"

\* C11: the lower bound get_messages filters with is `since` when it is
\* given (even if it is earlier than the mailbox creation time), otherwise
\* registration_time when an address has been created on this session,
\* otherwise none, in which case no record is excluded by time: the
\* messages returned are the considered records whose timestamp is not <=
\* that bound.  (Stated for replies whose records carry integer timestamps
\* that datetime accepts.)
C11_LowerBoundIsSinceElseRegistration ==
    (/\ FetchAnswered
     /\ ConsideredStamped
     /\ \A i \in DOMAIN Considered : WellFormed(Considered[i]))
    => IdsOf(ret.val) = IdsKept(Considered, LowerBound(ret.since, registration_time))

\* the record's timestamp is an integer above the lower bound lb, if any
NewerThan(rec, lb) == rec.ms.k = "int" /\ (IsNone(lb) \/ rec.ms.v > Val(lb))

Returned(rec) == \E j \in DOMAIN ret.val : ret.val[j].id = rec.id

RECURSIVE IsSubsequence(_, _)
\* a is b with some elements left out
IsSubsequence(a, b) ==
    IF a = <<>> THEN TRUE
    ELSE IF b = <<>> THEN FALSE
    ELSE IF Head(a) = Head(b) THEN IsSubsequence(Tail(a), Tail(b))
    ELSE IsSubsequence(a, Tail(b))

\* C12 as claimed: get_messages returns at most `limit` messages, and a
\* record newer than the lower bound is returned wherever it stands in the
\* reply, also when it follows older records or lies beyond the first
\* `limit` records of a longer reply.  (Stated for replies whose records
\* all carry integer timestamps.)
C12_NewerRecordReturnedAnywhere ==
    (/\ FetchAnswered
     /\ \A i \in DOMAIN ret.reply.data : ret.reply.data[i].ms.k = "int")
    => /\ Len(ret.val) <= ret.limit
       /\ \A i \in DOMAIN ret.reply.data :
            NewerThan(ret.reply.data[i], LowerBound(ret.since, registration_time))
                => Returned(ret.reply.data[i])

\* C12 as the code has it: get_messages looks at the first `limit` records
\* of the reply only and returns at most `limit` messages; among those
\* records the cutoff is by value: a record newer than the lower bound is
\* returned also when it follows older records, in reply order; a record
\* beyond the first `limit` records is never returned, whatever its
\* timestamp.  (Stated for replies whose first `limit` records all carry
\* integer timestamps.)
C12_CutoffByValueWithinLimit ==
    (FetchAnswered /\ ConsideredStamped)
    => /\ Len(ret.val) <= ret.limit
       /\ \A i \in DOMAIN Considered :
            NewerThan(Considered[i], LowerBound(ret.since, registration_time))
                => Returned(Considered[i])
       /\ IsSubsequence(IdsOf(ret.val), IdsOf(Considered))

\* a reply of three records fetched with limit 2: the newer record that
\* follows an older one is returned, the newer record in third place is not
C12_Witness ==
    /\ FetchAnswered
    /\ ret.limit = 2
    /\ IsNone(ret.since)
    /\ registration_time = Some(T0)
    /\ IdsOf(ret.reply.data) = <<"older", "newer", "huge">>
    /\ IdsOf(ret.val) = <<"newer">>


-----------------------------------------------------------------------------
(* Claims about failures, disconnect and create_email.                     *)

\* C13: no failure crosses the session boundary: get_messages returns an
\* empty sequence and delete_message returns False, without raising and
\* without changing email, auth_token or registration_time, when the
\* session is unbound, when the remote call raises, or when the status is
\* not 200; delete_message returns True only when the remote answered 200.
C13_NoFailureCrossesTheBoundary ==
    [][/\ GetMessages(LifeReplies, {None}, {10}) =>
            /\ UNCHANGED bound_state
            /\ ~ret'.raised
            /\ ~Bound => (ret'.val = <<>> /\ ret'.reply.status = "none")
            /\ ret'.reply.status \in {"raise", "non200", "unparsable"} => ret'.val = <<>>
       /\ DeleteMessage =>
            /\ UNCHANGED bound_state
            /\ ~ret'.raised
            /\ ~Bound => (ret'.val = FALSE /\ ret'.status = "none")
            /\ ret'.status \in {"raise", "non200"} => ret'.val = FALSE
            /\ ret'.val = TRUE => (wire'.kind = "delete" /\ wire'.status = "200")
      ]_vars

\* a delete on a Bound session whose remote call raised
C13_Witness ==
    /\ ret.op = "delete_message"
    /\ ret.status = "raise"
    /\ ret.val = FALSE
    /\ wire.kind = "delete"
    /\ Bound

\* C15: disconnect is safe to call any number of times in any state (before
\* connect, after a failed connect, after a previous disconnect): the call
\* completes, leaves the transport closed and the bound state as it was,
\* and a second call changes nothing the first one left.
C15_DisconnectIdempotent ==
    [][Disconnect =>
            /\ ret'.op = "disconnect"
            /\ session_closed'
            /\ UNCHANGED <<bound_state, auto_create>>
            /\ session_closed => UNCHANGED session_closed
      ]_vars

\* disconnect called again on a closed session that holds no token
C15_Witness ==
    /\ ret.op = "disconnect"
    /\ ret.again
    /\ session_closed
    /\ IsNone(auth_token)

\* C16: for any two successive create_email calls on the same session, the
\* registration_time recorded by the second call is strictly greater than
\* the one recorded by the first.
C16_SecondRegistrationStrictlyLater ==
    [][(CreateEmail /\ ~IsNone(registration_time)) =>
            Val(registration_time') > Val(registration_time)]_vars

-----------------------------------------------------------------------------
(* SpecScope: the session as a context manager (base.py:132-139):          *)
(*     with MailCxProvider(...) as client: body                            *)
(* h.pc is "with" before __enter__, "body" inside the scope, "returning"   *)
(* or "raising" when the body has ended, "left" or "propagated" when       *)
(* control has left the with statement, and "not_entered" when __enter__   *)
(* itself was interrupted; h.exits counts the disconnects __exit__ made.   *)

\* base.py:132-135: __enter__ calls connect and ignores what it returns
ScopeEnter ==
    /\ h.pc = "with"
    /\ \E hs \in Handshakes, addr \in generate_random_email : connect(hs, addr)
    /\ h' = [pc |-> "body", connected |-> ret'.val, exits |-> 0]
    /\ UNCHANGED <<auto_create, session_closed, now, wire, w>>

\* an interrupt signal during the handshake of __enter__ (provider.py:70):
\* KeyboardInterrupt passes `except Exception` (provider.py:83) and leaves
\* __enter__ before line 120 assigns; the scope is never entered
ScopeEnterInterrupted ==
    /\ h.pc = "with"
    /\ h' = [pc |-> "not_entered", connected |-> FALSE, exits |-> 0]
    /\ UNCHANGED <<email, auth_token, registration_time, auto_create, session_closed,
                   now, ret, wire, w>>

\* the calls the body makes on the session
ScopeBody ==
    /\ h.pc = "body"
    /\ \/ GetMessages(LifeReplies, {None}, {10})
       \/ DeleteMessage
       \/ CreateEmail
       \/ Tick

\* the body ends, by running to its end or by raising
ScopeBodyEnds ==
    /\ h.pc = "body"
    /\ \E how \in {"returning", "raising"} : h' = [h EXCEPT !.pc = how]
    /\ UNCHANGED <<email, auth_token, registration_time, auto_create, session_closed,
                   now, ret, wire, w>>

\* the with statement calling __exit__ on a normal end only
exit_runs_on_return_only(frame) == frame.pc = "returning"

\* the with statement calls __exit__ when the body ends, however it ends
exit_runs(frame) == frame.pc \in {"returning", "raising"}

\* base.py:137-139: __exit__ calls disconnect and returns None, so that an
\* exception of the body propagates
ScopeExit ==
    /\ h.pc \in {"returning", "raising"}
    /\ IF exit_runs(h)
       THEN /\ disconnect
            /\ ret' = [op |-> "disconnect", again |-> session_closed]
            /\ h' = [h EXCEPT !.pc = IF h.pc = "raising" THEN "propagated" ELSE "left",
                              !.exits = @ + 1]
       ELSE /\ UNCHANGED <<session_closed, ret>>
            /\ h' = [h EXCEPT !.pc = IF h.pc = "raising" THEN "propagated" ELSE "left"]
    /\ UNCHANGED <<email, auth_token, registration_time, auto_create, now, wire, w>>

InitScope ==
    /\ email \in {"", "preset@uuf.me"}
    /\ auth_token = None
    /\ registration_time = None
    /\ auto_create \in BOOLEAN
    /\ session_closed = FALSE
    /\ now = T0
    /\ ret = NoRet
    /\ wire = NoWire
    /\ w = NoWait
    /\ h = [pc |-> "with", connected |-> FALSE, exits |-> 0]

NextScope ==
    \/ ScopeEnter
    \/ ScopeEnterInterrupted
    \/ ScopeBody
    \/ ScopeBodyEnds
    \/ ScopeExit

SpecScope == InitScope /\ [][NextScope]_vars

\* C14: when the session is used as a scoped resource (enter = connect,
\* exit = disconnect), disconnect runs exactly once before control leaves
\* the scope on every exit path, including when the body raises after a
\* successful connect: no disconnect while the body runs, exactly one, with
\* the transport closed, once control has left the scope.
C14_ScopeDisconnectsExactlyOnce ==
    /\ h.pc \in {"body", "returning", "raising"} => (h.exits = 0 /\ ~session_closed)
    /\ h.pc \in {"left", "propagated"} => (h.exits = 1 /\ session_closed)

\* the body raised after a successful connect and a fetch
C14_Witness ==
    /\ h.pc = "propagated"
    /\ h.connected
    /\ h.exits = 1
    /\ session_closed
    /\ Bound


-----------------------------------------------------------------------------
(* SpecAddress: create_email alone, over every address that                *)
(* generate_random_email composes from the letters DrawnLetters.           *)

\* the letters the model lets random.choices draw
DrawnLetters == {"a", "z"}

InitAddress == Init

\* one call per behaviour
NextAddress == ret = NoRet /\ CreateEmailFrom(random_emails(DrawnLetters))

SpecAddress == InitAddress /\ [][NextAddress]_vars

\* the address reads local@domain with the "@" at position k
SplitsAt(addr, k) == k \in 1..Len(addr) /\ SubSeq(addr, k, k) = "@"

LocalPart(addr, k) == SubSeq(addr, 1, k - 1)
DomainPart(addr, k) == SubSeq(addr, k + 1, Len(addr))

\* C17: every address produced by generate_random_email / create_email has
\* the form local@domain where local consists only of lowercase letters a-z
\* with length between 6 and 10 inclusive and domain is a member of the
\* configured domain list (MAIL_HOSTS).
C17_AddressWellFormed ==
    ret.op = "create_email" =>
        /\ ret.val = email
        /\ \E k \in 1..Len(email) :
            /\ SplitsAt(email, k)
            /\ Len(LocalPart(email, k)) >= 6
            /\ Len(LocalPart(email, k)) <= 10
            /\ \A i \in 1..(k - 1) : SubSeq(email, i, i) \in ascii_lowercase
            /\ DomainPart(email, k) \in MAIL_HOSTS

\* an address with the longest local part on a domain that holds a digit
C17_Witness ==
    /\ ret.op = "create_email"
    /\ email = "zazazazazz@6n9.net"
    /\ registration_time = Some(T0)


-----------------------------------------------------------------------------
(* SpecExtract: extract_code, extract_all_codes and extract_info alone, on *)
(* every message of ExtractMessages.                                       *)

\* the longest body: the number of pieces it is put together from
MaxPieces == 3

\* The pieces plain-text bodies are put together from: a false-positive
\* literal, two 4-digit codes, a 6-digit code, a label in mixed case, a
\* mixed-case token of six characters, and a URL parameter whose value is
\* too long for a code.
Pieces ==
    {"2024", "5678", "9012", "482913", "Code:", "AB12cd", "x?code=123456789"}

RECURSIVE Texts(_)
\* the bodies of at most n pieces, joined by a blank
Texts(n) ==
    IF n = 0 THEN {""}
    ELSE LET shorter == Texts(n - 1)
         IN shorter \cup {IF t = "" THEN piece ELSE t \o " " \o piece :
                            t \in shorter, piece \in Pieces}

Node(tag, text) == [tag |-> tag, text |-> text]

\* no HTML body, an empty one, and <p> Sent in <b>2024 </b></p> with a
\* style and a script element
Htmls ==
    {None,
     Some(<<>>),
     Some(<<Node("style", "p { width: 8888px }"), Node("p", " Sent in "),
            Node("script", "var n = 777777;"), Node("b", "2024 ")>>)}

ExtractMessages ==
    {[body_text |-> bt, body_html |-> bh] :
        bt \in {None} \cup {Some(t) : t \in Texts(MaxPieces)}, bh \in Htmls}

\* the custom patterns callers pass: none, and r'(\d{4})'
CustomPatterns ==
    {None,
     Some([boundary |-> FALSE, labels |-> <<"">>, seps |-> FALSE,
           class |-> "digit", min |-> 4, max |-> 4, unbounded |-> FALSE])}

\* ret holds the message a caller has at hand (op "message"), and after
\* the call the arguments and the result

ExtractCode(patterns) ==
    /\ ret.op = "message"
    /\ \E pattern \in patterns, use_html \in BOOLEAN :
        ret' = [op |-> "extract_code", message |-> ret.message, pattern |-> pattern,
                use_html |-> use_html,
                val |-> extract_code(ret.message, pattern, use_html)]
    /\ UNCHANGED <<email, auth_token, registration_time, auto_create, session_closed,
                   now, wire, w, h>>

ExtractAllCodes ==
    /\ ret.op = "message"
    /\ \E use_html \in BOOLEAN :
        ret' = [op |-> "extract_all_codes", message |-> ret.message, use_html |-> use_html,
                val |-> extract_all_codes(ret.message, use_html)]
    /\ UNCHANGED <<email, auth_token, registration_time, auto_create, session_closed,
                   now, wire, w, h>>

ExtractInfo ==
    /\ ret.op = "message"
    /\ ret' = [op |-> "extract_info", message |-> ret.message,
               val |-> extract_info(ret.message)]
    /\ UNCHANGED <<email, auth_token, registration_time, auto_create, session_closed,
                   now, wire, w, h>>

InitExtract ==
    /\ email = ""
    /\ auth_token = None
    /\ registration_time = None
    /\ auto_create = TRUE
    /\ session_closed = FALSE
    /\ now = T0
    /\ ret \in {[op |-> "message", message |-> m] : m \in ExtractMessages}
    /\ wire = NoWire
    /\ w = NoWait
    /\ h = NoHarness

\* one call per behaviour: the functions are pure
NextExtract ==
    \/ ExtractCode(CustomPatterns)
    \/ ExtractAllCodes
    \/ ExtractInfo

SpecExtract == InitExtract /\ [][NextExtract]_vars


-----------------------------------------------------------------------------
(* Claims about extract_code and extract_all_codes.                        *)

\* the unified text of the call ret records
ExtractText == unified_text(ret.message, ret.use_html)

\* the literals spec.md 4.3 and 8 name: the years 2020-2024, 1234, 0000, 9999
ClaimedLiterals == {"2020", "2021", "2022", "2023", "2024", "1234", "0000", "9999"}

\* validation as spec.md 4.3 states it
PassesValidation(code) ==
    code \notin ClaimedLiterals /\ Len(code) >= 4 /\ Len(code) <= 8

\* every match of every pattern family, families in priority order and the
\* matches of one family in text order, that passes validation
ValidMatches(text) == SelectSeq(candidates(text, 1), PassesValidation)

\* C18: without a custom pattern, extract_code returns the first match,
\* taking the pattern families in their fixed priority order, whose
\* captured group passes _is_valid_code; it returns absent only when no
\* match of any pattern family passes validation.
C18_FirstValidMatchReturned ==
    (ret.op = "extract_code" /\ IsNone(ret.pattern)) =>
        /\ IsNone(ret.val) <=> ValidMatches(ExtractText) = <<>>
        /\ ValidMatches(ExtractText) # <<>> => ret.val = Some(Head(ValidMatches(ExtractText)))

\* C19 as claimed: a false-positive literal is never the result of
\* extract_code, for any message and any arguments, and is never an element
\* of extract_all_codes.
C19_NeverAFalsePositive ==
    /\ (ret.op = "extract_code" /\ ~IsNone(ret.val)) => Val(ret.val) \notin ClaimedLiterals
    /\ ret.op = "extract_all_codes" =>
            \A i \in DOMAIN ret.val : ret.val[i] \notin ClaimedLiterals

\* C19 as the code has it: a false-positive literal is never the result of
\* extract_code when no custom pattern is given, for any message and either
\* value of use_html, and is never an element of extract_all_codes; with a
\* custom pattern extract_code returns the pattern's first capture group
\* as it is, without validation.
C19_NoFalsePositiveByDefault ==
    /\ (ret.op = "extract_code" /\ IsNone(ret.pattern) /\ ~IsNone(ret.val)) =>
            Val(ret.val) \notin ClaimedLiterals
    /\ (ret.op = "extract_code" /\ ~IsNone(ret.pattern)) =>
            ret.val = search(Val(ret.pattern), ExtractText)
    /\ ret.op = "extract_all_codes" =>
            \A i \in DOMAIN ret.val : ret.val[i] \notin ClaimedLiterals

\* the HTML body shows 2024 and the plain text begins with 2024: both are
\* passed over and the code that follows the label is returned
C19_Witness ==
    /\ ret.op = "extract_code"
    /\ IsNone(ret.pattern)
    /\ ExtractText = "Sent in 2024\n2024 Code: 9012"
    /\ ret.val = Some("9012")

\* the index of the first occurrence of x in the sequence q
FirstAt(q, x) == CHOOSE i \in DOMAIN q : q[i] = x /\ \A j \in 1..(i - 1) : q[j] # x

\* C20: the sequence returned by extract_all_codes contains no duplicate
\* strings, every element satisfies _is_valid_code (length in [4,8] and not
\* a false-positive literal), and elements appear in first-found order:
\* pattern families in priority order, matches of one family in text order;
\* every match that passes validation is an element.
C20_AllCodesDistinctValidOrdered ==
    ret.op = "extract_all_codes" =>
        LET found == ValidMatches(ExtractText)
            codes == ret.val
        IN /\ \A i, j \in DOMAIN codes : i # j => codes[i] # codes[j]
           /\ \A i \in DOMAIN codes : PassesValidation(codes[i])
           /\ {codes[i] : i \in DOMAIN codes} = {found[k] : k \in DOMAIN found}
           /\ \A i, j \in DOMAIN codes :
                i < j => FirstAt(found, codes[i]) < FirstAt(found, codes[j])

\* the 6-digit code is found first though it stands last, the two 4-digit
\* codes follow in text order, and the 6-digit code is found again by the
\* alphanumeric family
C20_Witness ==
    /\ ret.op = "extract_all_codes"
    /\ ExtractText = "9012 5678 482913"
    /\ ret.val = <<"482913", "9012", "5678">>
    /\ Len(candidates(ExtractText, 1)) = 4

\* the positions of text at which a match of pattern p starts
MatchStarts(p, text) == {i \in 1..Len(text) : match_at(p, text, i).ok}

\* C21: when a custom pattern is supplied, the result of extract_code
\* depends only on that pattern: it is the first capture group of the
\* leftmost match of the pattern in the unified text, and absent when the
\* pattern matches nowhere; the default patterns play no part, also when
\* one of them matches.
C21_CustomPatternAlone ==
    (ret.op = "extract_code" /\ ~IsNone(ret.pattern)) =>
        LET p == Val(ret.pattern)
            starts == MatchStarts(p, ExtractText)
        IN IF starts = {} THEN ret.val = None
           ELSE LET first == CHOOSE i \in starts : \A j \in starts : i <= j
                IN ret.val = Some(match_at(p, ExtractText, first).group)

\* (\d{4}) finds nothing in a text whose token AB12cd the default
\* patterns accept: the result is absent
C21_Witness ==
    /\ ret.op = "extract_code"
    /\ ~IsNone(ret.pattern)
    /\ ExtractText = "AB12cd"
    /\ first_valid(ExtractText, 1) = Some("AB12cd")
    /\ ret.val = None

\* the elements of a sequence
Elements(q) == {q[i] : i \in DOMAIN q}

\* C27: for every message, when extract_code with the default patterns
\* returns a code, that code is an element of extract_all_codes for the
\* same message and the same use_html; hence in every extract_info result
\* a non-absent primary_code is a member of codes.
C27_PrimaryCodeAmongAllCodes ==
    /\ (ret.op = "extract_code" /\ IsNone(ret.pattern) /\ ~IsNone(ret.val)) =>
            Val(ret.val) \in Elements(extract_all_codes(ret.message, ret.use_html))
    /\ (ret.op = "extract_info" /\ ~IsNone(ret.val.primary_code)) =>
            Val(ret.val.primary_code) \in Elements(ret.val.codes)

\* the 4-digit pattern stops at 2024, so the primary code is the token the
\* alphanumeric pattern finds; it is the second of the codes
C27_Witness ==
    /\ ret.op = "extract_info"
    /\ unified_text(ret.message, TRUE) = "2024 5678 AB12cd"
    /\ ret.val.primary_code = Some("AB12cd")
    /\ ret.val.codes = <<"5678", "AB12cd">>


-----------------------------------------------------------------------------
(* SpecLink: extract_link and extract_info alone, on every message of      *)
(* LinkMessages.                                                           *)

\* the longest HTML body: the number of <a> elements it holds
MaxAnchors == 2

\* The <a> elements HTML bodies are put together from: one whose href holds
\* "confirm", one whose text alone holds "Verify", one with a relative href
\* in upper case, one without href, and one whose href is empty.
AnchorPool ==
    {Anchor("https://a.io/confirm?t=1", "Go"),
     Anchor("https://a.io/go", " Verify email "),
     Anchor("/VERIFY/now", "here"),
     Node("a", "verify"),
     Anchor("", "activate")}

\* no HTML body, and the bodies of at most MaxAnchors <a> elements
LinkHtmls == {None} \cup {Some(q) : q \in SeqsUpTo(AnchorPool, MaxAnchors)}

\* The plain-text bodies: none, one without a URL, one whose only URL has
\* no scheme, one with two URLs of which the second holds "Verify", one
\* whose scheme is in upper case, and one with a URL in angle brackets.
LinkTexts ==
    {None,
     Some("no link, verify by phone"),
     Some("see www.a.io/activate now"),
     Some("open http://b.io/x or https://b.io/Verify?k=2"),
     Some("HTTPS://b.io/verify"),
     Some("<https://b.io/confirm>")}

LinkMessages ==
    {[body_text |-> bt, body_html |-> bh] : bt \in LinkTexts, bh \in LinkHtmls}

\* the keywords callers pass: none, and two in either case
LinkKeywords == {None, Some("verify"), Some("CONFIRM")}

ExtractLink(keywords) ==
    /\ ret.op = "message"
    /\ \E keyword \in keywords :
        ret' = [op |-> "extract_link", message |-> ret.message, keyword |-> keyword,
                val |-> extract_link(ret.message, keyword)]
    /\ UNCHANGED <<email, auth_token, registration_time, auto_create, session_closed,
                   now, wire, w, h>>

InitLink ==
    /\ email = ""
    /\ auth_token = None
    /\ registration_time = None
    /\ auto_create = TRUE
    /\ session_closed = FALSE
    /\ now = T0
    /\ ret \in {[op |-> "message", message |-> m] : m \in LinkMessages}
    /\ wire = NoWire
    /\ w = NoWait
    /\ h = NoHarness

\* one call per behaviour: the functions are pure
NextLink ==
    \/ ExtractLink(LinkKeywords)
    \/ ExtractInfo

SpecLink == InitLink /\ [][NextLink]_vars


-----------------------------------------------------------------------------
(* Claims about extract_link and extract_info.                             *)

\* the <a> elements with an href of the message ret records, in document order
LinkAnchors ==
    IF IsNone(ret.message.body_html) THEN <<>>
    ELSE find_all_anchors(Val(ret.message.body_html))

\* the URLs of the plain-text body of the message ret records, in text order
LinkUrls ==
    IF IsNone(ret.message.body_text) THEN <<>>
    ELSE findall(Val(ret.message.body_text), 1)

\* t contains the keyword k, case ignored
Holds(t, k) == contains(lower_str(k), lower_str(t))

\* the indexes of the anchors that qualify for the keyword
QualifyingAnchors(keyword) ==
    {i \in DOMAIN LinkAnchors :
        IF ~IsNone(keyword)
        THEN Holds(LinkAnchors[i].href, Val(keyword)) \/ Holds(LinkAnchors[i].text, Val(keyword))
        ELSE \/ startswith(LinkAnchors[i].href, "http://")
             \/ startswith(LinkAnchors[i].href, "https://")}

\* the indexes of the URLs that qualify for the keyword
QualifyingUrls(keyword) ==
    {j \in DOMAIN LinkUrls : ~IsNone(keyword) => Holds(LinkUrls[j], Val(keyword))}

Least(S) == CHOOSE i \in S : \A j \in S : i <= j

\* C22: extract_link prefers the HTML body: it returns the href of the
\* first anchor in document order that qualifies (with a keyword: href or
\* visible text contains the keyword, case ignored; without: href starts
\* with http:// or https://).  Only when no anchor qualifies it returns the
\* first URL of the plain-text body that qualifies (with a keyword: the URL
\* contains it, case ignored; without: the first URL), and it returns
\* absent only when neither source yields a result.
C22_HtmlAnchorThenPlainTextUrl ==
    ret.op = "extract_link" =>
        LET hrefs == QualifyingAnchors(ret.keyword)
            urls == QualifyingUrls(ret.keyword)
        IN IF hrefs # {} THEN ret.val = Some(LinkAnchors[Least(hrefs)].href)
           ELSE IF urls # {} THEN ret.val = Some(LinkUrls[Least(urls)])
           ELSE ret.val = None

\* the first <a> has no href, the second holds the keyword in its text
\* only, and the plain text holds a URL with the keyword: the href wins
C22_Witness ==
    /\ ret.op = "extract_link"
    /\ ret.keyword = Some("verify")
    /\ ret.message.body_html = Some(<<Node("a", "verify"), Anchor("https://a.io/go", " Verify email ")>>)
    /\ LinkUrls = <<"http://b.io/x", "https://b.io/Verify?k=2">>
    /\ QualifyingUrls(ret.keyword) = {2}
    /\ ret.val = Some("https://a.io/go")

\* what extract_link yields for keyword number k on the message ret records
LinkFor(k) == extract_link(ret.message, Some(KEYWORDS[k]))

\* C23 as claimed: verification_link is the result of extract_link for the
\* earliest keyword of the priority list that yields a non-absent result,
\* and it is absent exactly when every keyword yields absent.
C23_EarliestNonAbsentKeyword ==
    ret.op = "extract_info" =>
        LET hits == {k \in DOMAIN KEYWORDS : LinkFor(k) # None}
        IN IF hits = {} THEN ret.val.verification_link = None
           ELSE ret.val.verification_link = LinkFor(Least(hits))

\* C23 as the code has it: verification_link is the result of extract_link
\* for the earliest keyword of the priority list that yields a result that
\* is neither absent nor the empty string; keyword priority wins over
\* document order, and verification_link is absent exactly when every
\* keyword yields absent or the empty string.
C23_EarliestNonEmptyKeyword ==
    ret.op = "extract_info" =>
        LET hits == {k \in DOMAIN KEYWORDS : LinkFor(k) # None /\ LinkFor(k) # Some("")}
        IN IF hits = {} THEN ret.val.verification_link = None
           ELSE ret.val.verification_link = LinkFor(Least(hits))

\* the anchor that holds "confirm" stands before the one that holds
\* "Verify": the link of the earlier keyword is returned
C23_Witness ==
    /\ ret.op = "extract_info"
    /\ ret.message.body_html = Some(<<Anchor("https://a.io/confirm?t=1", "Go"),
                                      Anchor("https://a.io/go", " Verify email ")>>)
    /\ LinkFor(2) = Some("https://a.io/confirm?t=1")
    /\ ret.val.verification_link = Some("https://a.io/go")


-----------------------------------------------------------------------------
(* Claims about the session after disconnect.                              *)

\* C24: after disconnect() the session is Disconnected, not Bound: the
\* get_messages or delete_message that follows a disconnect, with no
\* connect in between, issues no remote request and returns the empty
\* sequence / False.
C24_NoRequestAfterDisconnect ==
    [][(ret.op = "disconnect" /\ ret'.op \in {"get_messages", "delete_message"}) =>
            /\ wire'.kind = "none"
            /\ ret'.op = "get_messages" => ret'.val = <<>>
            /\ ret'.op = "delete_message" => ret'.val = FALSE
      ]_vars


-----------------------------------------------------------------------------
(* SpecPoll: poll_emails (test_mailcx_simple.py:16-95) on a connected      *)
(* session.  h is the frame of the call: pc is "poll" before the fetch of  *)
(* line 40, "sleep" inside the time.sleep of line 84 or 92, "returned"     *)
(* after a return; fetches and sleeps count the calls of get_messages and  *)
(* of time.sleep; known_before holds the ids of every fetch before the     *)
(* last, poll_ids those of the last, had_new_earlier whether a fetch       *)
(* before the last held an id no fetch before it held.  The bodies of the  *)
(* messages are strs, so that the extract_code and extract_link of lines   *)
(* 55 and 60 return and change nothing.                                    *)

\* the largest max_polls
MaxPolls == 3

\* the limit poll_emails passes (test_mailcx_simple.py:40)
POLL_LIMIT == 10

\* a harness that sleeps after every poll
sleeps_after_every_poll(poll_count, max_polls) == TRUE

\* test_mailcx_simple.py:83, 91: if poll_count < max_polls
sleeps_after(poll_count, max_polls) == poll_count < max_polls

\* test_mailcx_simple.py:35, 94-95: the for statement takes the next value
\* of range(1, max_polls + 1), or the loop ends and False is returned
next_poll(frame) ==
    IF frame.poll_count + 1 <= frame.max_polls
    THEN [frame EXCEPT !.pc = "poll", !.poll_count = @ + 1]
    ELSE [frame EXCEPT !.pc = "returned", !.result = Some(FALSE)]

\* test_mailcx_simple.py:83-84, 91-92: the end of one turn
end_of_turn(frame) ==
    IF sleeps_after(frame.poll_count, frame.max_polls)
    THEN [frame EXCEPT !.pc = "sleep", !.sleeps = @ + 1]
    ELSE next_poll(frame)

\* test_mailcx_simple.py:28-35: the call, up to the first turn of the loop
PollInvoke(intervals, polls) ==
    /\ h.pc = "ready"
    /\ \E interval \in intervals, max_polls \in polls :
        /\ now + max_polls * interval * MillisPerSec <= MaxNow
        /\ h' = next_poll([pc |-> "ready",
                           interval |-> interval,
                           max_polls |-> max_polls,
                           start |-> now,
                           poll_count |-> 0,
                           seen_ids |-> {},
                           result |-> None,
                           interrupted |-> FALSE,
                           fetches |-> 0,
                           sleeps |-> 0,
                           known_before |-> {},
                           poll_ids |-> {},
                           had_new_earlier |-> FALSE])
    /\ UNCHANGED <<email, auth_token, registration_time, auto_create, session_closed,
                   now, ret, wire, w>>

\* test_mailcx_simple.py:37-92: get_messages, the test for new messages and
\* what follows it, up to the sleep or the return
PollFetch(replies) ==
    /\ h.pc = "poll"
    /\ \E reply \in replies :
        LET got == get_messages(auth_token, email, registration_time, None, POLL_LIMIT, reply)
            messages == got.val
            ids == {messages[i].id : i \in DOMAIN messages}
            new_messages == SelectSeq(messages, LAMBDA msg : msg.id \notin h.seen_ids)
            fetched == [h EXCEPT !.fetches = @ + 1,
                                 !.known_before = h.known_before \cup h.poll_ids,
                                 !.poll_ids = ids,
                                 !.had_new_earlier =
                                     @ \/ ~(h.poll_ids \subseteq h.known_before)]
        IN /\ wire' = IF got.requested THEN Wire("fetch", reply.status) ELSE NoWire
           /\ h' = IF got.raised THEN end_of_turn(fetched)
                   ELSE IF new_messages # <<>>
                   THEN [fetched EXCEPT !.pc = "returned",
                                        !.result = Some(TRUE),
                                        !.seen_ids = @ \cup ids]
                   ELSE end_of_turn([fetched EXCEPT !.seen_ids = @ \cup ids])
    /\ UNCHANGED <<email, auth_token, registration_time, auto_create, session_closed,
                   now, ret, w>>

\* test_mailcx_simple.py:84, 92: the sleep ends and the loop goes on
PollSleep ==
    /\ h.pc = "sleep"
    /\ now' = sleep_until(now, h.interval)
    /\ h' = next_poll(h)
    /\ UNCHANGED <<email, auth_token, registration_time, auto_create, session_closed,
                   ret, wire, w>>

\* test_mailcx_simple.py:86-88: KeyboardInterrupt inside the try statement,
\* before the fetch or during the sleep
PollInterrupt ==
    /\ h.pc \in {"poll", "sleep"}
    /\ h' = [h EXCEPT !.pc = "returned", !.result = Some(FALSE), !.interrupted = TRUE]
    /\ UNCHANGED <<email, auth_token, registration_time, auto_create, session_closed,
                   now, ret, wire, w>>

\* the session after a successful connect, as in InitWait
InitPoll ==
    /\ auth_token = Some(<<"t">>)
    /\ \/ /\ email = "abcdef@qabq.com"
          /\ registration_time = Some(T0 - MillisPerSec)
          /\ auto_create = TRUE
       \/ /\ email = "preset@uuf.me"
          /\ registration_time = None
          /\ auto_create = FALSE
    /\ session_closed = FALSE
    /\ now = T0
    /\ ret = [op |-> "connect", val |-> TRUE, created |-> auto_create]
    /\ wire = NoWire
    /\ w = NoWait
    /\ h = [pc |-> "ready"]

\* The records the remote serves during the polls: m1 and m2, both stamped
\* after the registration, and m1 with a malformed timestamp.
PollPool ==
    {Record("m1", Num(T0 + TickMs), SubjHit, FromDict(SendHit)),
     Record("m2", Num(T0 - 1), SubjHit, FromDict(SendHit)),
     Record("m1", Str, SubjHit, FromDict(SendHit))}

PollReplies == OkReplies(PollPool, MaxReply) \cup FailedReplies

NextPoll ==
    \/ PollInvoke(0..MaxInterval, 0..MaxPolls)
    \/ PollFetch(PollReplies)
    \/ PollSleep
    \/ PollInterrupt

SpecPoll == InitPoll /\ [][NextPoll]_vars


-----------------------------------------------------------------------------
(* Claims about poll_emails.                                               *)

PollFrame == h.pc \in {"poll", "sleep", "returned"}

\* the last fetch held an id that no earlier fetch of the call held
LastPollNew == ~(h.poll_ids \subseteq h.known_before)

\* C26: poll_emails makes at most max_polls fetches, returns True at the
\* first poll whose fetch contains a message not seen in earlier polls and
\* makes no further fetch after that, returns False after max_polls polls
\* without a new message or when interrupted, and sleeps interval between
\* polls but not after the last poll.
C26_PollsUntilNewOrMaxPolls ==
    PollFrame =>
        /\ h.fetches <= h.max_polls \/ h.fetches = 0
        /\ ~h.had_new_earlier
        /\ h.pc # "returned" => (~LastPollNew /\ h.sleeps = h.fetches)
        /\ h.pc = "poll" => h.fetches = h.poll_count - 1
        /\ h.pc = "returned" =>
            /\ h.result = Some(TRUE) <=> LastPollNew
            /\ (h.result = Some(FALSE) /\ ~h.interrupted) =>
                    (h.fetches = h.max_polls \/ (h.max_polls <= 0 /\ h.fetches = 0))
            /\ ~h.interrupted =>
                    h.sleeps = (IF h.fetches = 0 THEN 0 ELSE h.fetches - 1)
        /\ now >= h.start + (h.sleeps - 1) * h.interval * MillisPerSec
        /\ (h.pc # "sleep" /\ ~h.interrupted) =>
                now = h.start + h.sleeps * h.interval * MillisPerSec

\* three polls: the first finds the mailbox empty, the second fails, the
\* third brings two messages; True is returned after two sleeps
C26_Witness ==
    /\ PollFrame
    /\ h.pc = "returned"
    /\ h.result = Some(TRUE)
    /\ h.max_polls = 3
    /\ h.fetches = 3
    /\ h.sleeps = 2
    /\ h.known_before = {}
    /\ h.poll_ids = {"m1", "m2"}
    /\ h.interval = 1
    /\ now = h.start + 2 * MillisPerSec


-----------------------------------------------------------------------------
(* SpecWait: test_wait_for_specific from its try statement on              *)
(* (test_mailcx_simple.py:162-192): one wait_for_message on a connected    *)
(* session, then disconnect.  The harness passes timeout=60, interval=5    *)
(* and no filter; the model lets every argument range.                     *)

\* the try statement without its except clause
harness_handles_without_except(frame) == frame.pc = "returned"

\* test_mailcx_simple.py:162-189: whether control reaches line 191 after the
\* wait: it returned, or it raised the KeyboardInterrupt line 188 catches
harness_handles(frame) == frame.pc = "returned" \/ frame.interrupted

\* test_mailcx_simple.py:162-167
HarnessWait(timeouts, intervals, subjects, senders) ==
    /\ h.pc = "run"
    /\ w.pc = "idle"
    /\ WaitInvoke(timeouts, intervals, subjects, senders)

\* test_mailcx_simple.py:169-192
HarnessCleanup ==
    /\ h.pc = "run"
    /\ w.pc \in {"returned", "raised"}
    /\ IF harness_handles(w)
       THEN disconnect /\ h' = [pc |-> "done"]
       ELSE UNCHANGED session_closed /\ h' = [pc |-> "crashed"]
    /\ UNCHANGED <<email, auth_token, registration_time, auto_create, now, ret, wire, w>>

\* The records the remote serves during a wait: m1 stamped at T0 + TickMs
\* (the invocation instant when the two clock readings lie TickMs apart,
\* after it otherwise), m2 stamped one millisecond before the wait (after
\* the registration), m2 again with a subject the filter misses, m2 with no
\* timestamp and a sender the filter misses, and m1 with a malformed
\* timestamp.
WaitPool ==
    {Record("m1", Num(T0 + TickMs), SubjHit, FromDict(SendHit)),
     Record("m2", Num(T0 - 1), SubjHit, FromDict(SendHit)),
     Record("m2", Num(T0 + TickMs + 1), SubjMiss, FromDict(SendHit)),
     Record("m2", Absent, SubjHit, FromStr(SendMiss)),
     Record("m1", Str, SubjHit, FromDict(SendHit))}

WaitReplies == OkReplies(WaitPool, MaxReply) \cup FailedReplies

WaitSubjects == {None, Some(<<"v", "E">>)}
WaitSenders == {None, Some(<<"n", "O">>)}

\* The session after a successful connect: created by connect one second
\* before (registration_time set), or bound to a preset address with
\* auto_create false (registration_time None).
InitWait ==
    /\ auth_token = Some(<<"t">>)
    /\ \/ /\ email = "abcdef@qabq.com"
          /\ registration_time = Some(T0 - MillisPerSec)
          /\ auto_create = TRUE
       \/ /\ email = "preset@uuf.me"
          /\ registration_time = None
          /\ auto_create = FALSE
    /\ session_closed = FALSE
    /\ now = T0
    /\ ret = [op |-> "connect", val |-> TRUE, created |-> auto_create]
    /\ wire = NoWire
    /\ w = NoWait
    /\ h = [pc |-> "run"]

NextWait ==
    \/ HarnessWait(0..MaxTimeout, 0..MaxInterval, WaitSubjects, WaitSenders)
    \/ WaitPoll(WaitReplies)
    \/ WaitTimeout
    \/ Interrupt
    \/ HarnessCleanup

SpecWait == InitWait /\ [][NextWait]_vars

\* The interpreter runs the loop on: a turn that can be taken is taken.
FairSpecWait ==
    SpecWait /\ WF_vars(WaitPoll(WaitReplies)) /\ WF_vars(WaitTimeout) /\ WF_vars(HarnessCleanup)

-----------------------------------------------------------------------------------------------------------------------------------------------------
(* Claims about wait_for_message.                                          *)

WaitFrame == w.pc # "idle"
WaitReturnedMessage == WaitFrame /\ w.pc = "returned" /\ ~IsNone(w.result)
WaitReturnedNone == WaitFrame /\ w.pc = "returned" /\ IsNone(w.result)

\* C1: within one call a message whose id was seen in an earlier poll is
\* never returned by a later poll, and the returned message's received_at,
\* when present, is not earlier (in whole milliseconds) than the instant
\* wait_for_message was invoked.
C1_NoSeenIdNoStaleMessage ==
    WaitReturnedMessage =>
        /\ Val(w.result).id \notin w.seen_before
        /\ ~IsNone(Val(w.result).received_at) =>
              /\ timestamp_millis(Val(Val(w.result).received_at)) >= w.wait_start_millis
              /\ timestamp_millis(Val(Val(w.result).received_at)) >= w.start_time

\* a second poll re-serves a seen id, which is passed over, and returns a
\* message stamped at the very instant the wait began
C1_Witness ==
    /\ WaitReturnedMessage
    /\ w.npolls >= 2
    /\ w.seen_before # {}
    /\ w.poll_ids \cap w.seen_before # {}
    /\ ~IsNone(Val(w.result).received_at)
    /\ timestamp_millis(Val(Val(w.result).received_at)) = w.wait_start_millis
    /\ w.wait_start_millis > w.start_time

\* C2: wait_for_message returns the first message, in poll order and then in
\* reply order, that qualifies (id unseen in this call, received_at absent
\* or >= the invocation instant, filters case-insensitive substrings of
\* subject and sender); the poll that contains a qualifying message is the
\* last one: the call returns with it, and a poll without one only adds its
\* ids to the seen set.
C2_ReturnsFirstQualifying ==
    WaitFrame =>
        IF ~IsNone(w.first_qualifying)
        THEN /\ w.pc = "returned"
             /\ w.result = w.first_qualifying
        ELSE /\ IsNone(w.result)
             /\ w.seen_ids = w.seen_before \cup w.poll_ids

\* both filters given in another case than the subject and sender have, and
\* the message returned is the second of the second poll
C2_Witness ==
    /\ WaitReturnedMessage
    /\ w.npolls >= 2
    /\ TruthyStr(w.filter_subject)
    /\ TruthyStr(w.filter_sender)
    /\ w.first_index = 2
    /\ Val(w.filter_subject) # lower(Val(w.filter_subject))
    /\ Val(w.result).subject # lower(Val(w.result).subject)

\* C3: wait_for_message always eventually returns (the clock advancing and
\* every fetch returning; an interrupt ends it by raising), and it returns
\* None only when at least timeout seconds have elapsed since invocation
\* and no poll of the call contained a qualifying message.
C3_EventuallyReturnsNoneOnlyAtDeadline ==
    /\ [](WaitReturnedNone =>
            /\ now - w.start_time >= w.timeout * MillisPerSec
            /\ ~w.any_qualified)
    /\ (w.pc = "loop") ~> (w.pc = "returned" \/ (w.pc = "raised" /\ w.interrupted))

C3_Witness ==
    /\ WaitReturnedNone
    /\ w.timeout > 0
    /\ w.npolls >= 2
    /\ w.seen_ids # {}

\* C4: a poll whose fetch fails (transport error, non-200 status, unparsable
\* reply) does not abort wait_for_message: the loop goes on to the next
\* poll, and a qualifying message a later poll delivers before the deadline
\* is still returned.
C4_FailedPollDoesNotAbort ==
    (WaitFrame /\ w.any_failed) =>
        /\ w.pc = "raised" => w.interrupted
        /\ (w.poll_failed /\ ~w.interrupted) =>
              \/ w.pc = "loop"
              \/ WaitReturnedNone /\ now - w.start_time >= w.timeout * MillisPerSec
        /\ ~IsNone(w.first_qualifying) =>
              /\ w.pc = "returned"
              /\ w.result = w.first_qualifying

\* a message is returned by a poll that follows a failed one
C4_Witness ==
    /\ WaitReturnedMessage
    /\ w.any_failed
    /\ ~w.poll_failed
    /\ w.npolls >= 2
    /\ wire.kind = "fetch"
    /\ wire.status = "ok"

\* C5 as claimed: an interrupt during the wait ends wait_for_message as a
\* normal early return with an absent result, not as a propagated failure,
\* and the disconnect after the wait still runs.
C5_InterruptIsNormalReturn ==
    /\ (WaitFrame /\ w.interrupted) => (w.pc = "returned" /\ IsNone(w.result))
    /\ h.pc # "crashed"
    /\ h.pc = "done" => session_closed

\* C5 as the code has it: an interrupt during the wait leaves
\* wait_for_message as a raised KeyboardInterrupt, with no result and the
\* bound state untouched; the harness catches it and its disconnect still
\* runs before it finishes.
C5_InterruptRaisesAndCleanupRuns ==
    /\ (WaitFrame /\ w.interrupted) =>
            /\ w.pc = "raised"
            /\ IsNone(w.result)
            /\ Bound
    /\ h.pc # "crashed"
    /\ h.pc = "done" => session_closed

C5_Witness ==
    /\ WaitFrame
    /\ w.interrupted
    /\ w.npolls >= 1
    /\ h.pc = "done"
    /\ session_closed


\* timeout / interval rounded up, for interval > 0
CeilDiv(timeout, interval) == (timeout + interval - 1) \div interval

\* C25: in wait_for_message every poll is preceded by a sleep of interval
\* seconds, so that poll number n begins no earlier than n intervals after
\* the invocation; with timeout <= 0 no poll is made and absent is
\* returned; with timeout > 0 a call that returns has made at least one
\* poll; and with interval > 0 the number of polls of one call never
\* exceeds ceil(timeout / interval).
C25_SleepThenPollAtMostCeilTimes ==
    WaitFrame =>
        /\ w.npolls >= 1 =>
                Val(w.fetch_at) >= w.start_time + w.npolls * w.interval * MillisPerSec
        /\ w.npolls = 0 => IsNone(w.fetch_at)
        /\ w.timeout <= 0 => (w.npolls = 0 /\ (w.pc = "returned" => IsNone(w.result)))
        /\ (w.timeout > 0 /\ w.pc = "returned") => w.npolls >= 1
        /\ w.interval > 0 => w.npolls <= CeilDiv(w.timeout, w.interval)

\* timeout 2 and interval 1: the second poll begins two intervals after the
\* invocation, and the call returns absent after ceil(2 / 1) polls
C25_Witness ==
    /\ WaitReturnedNone
    /\ w.timeout = 2
    /\ w.interval = 1
    /\ w.npolls = CeilDiv(w.timeout, w.interval)
    /\ Val(w.fetch_at) = w.start_time + 2 * MillisPerSec

====
